---- MODULE Spec2Model ----
(***************************************************************************)
(* Hybrid retrieval fusion engine of the Venice search backend:            *)
(* SearchService (search_text, search_image, get_heatmap_data), the        *)
(* GlobalState singletons and the HTTP endpoints in front of them.         *)
(*                                                                         *)
(* Raw similarity scores are exact rationals in hundredths (0.45 is 45).   *)
(* A score is a record [n, d, r] standing for  n / (d * sqrt(r)):          *)
(*   a raw score s/100 is        [n |-> s,       d |-> 100, r |-> 1]        *)
(*   a z-score (x - mean)/std is [n |-> N*s - S, d |-> 1,   r |-> N*Q-S*S]  *)
(* where N, S, Q are the count, the sum and the sum of squares of the raw  *)
(* numerators of the result set.  All comparisons are exact.               *)
(***************************************************************************)
EXTENDS Integers, Sequences, FiniteSets, TLC

\* ---------------------------------------------------------------- bounds
\* the largest number of points a collection returns for one query
MaxHits == 3
\* the largest limit a caller asks for (the smallest is -1)
MaxLimit == 2

\* ------------------------------------------------------ program constants
\* search_text: absolute floors, in hundredths
DOC_MIN_SCORE == 45
MAP_MIN_SCORE == 18
\* search_image: absolute floors, in hundredths
MAP_IMG_MIN_SCORE == 40
DOC_IMG_MIN_SCORE == 22
\* relative (z-score) threshold of both searches
Z_SCORE_THRESHOLD == 0
\* get_heatmap_data: score_threshold handed to the store, in hundredths
HEAT_DOC_THRESHOLD == 35
HEAT_MAP_THRESHOLD == 20
\* endpoint get_heatmap_data: safe_limit = min(limit, 5000)
HEATMAP_CAP == 5000
\* raw scores a text search meets
TextGrid == {10, 18, 45, 60, 75, 90}
\* raw scores an image search meets
ImageGrid == {10, 22, 40, 60, 90}
\* raw scores a heatmap query meets
HeatGrid == {20, 35, 60}

\* limits a caller may send: TextSearchRequest.limit is an unconstrained int
Limits == (-1) .. MaxLimit

VARIABLES
    db_client,          \* GlobalState._db_client: FALSE is None
    feature_extractor,  \* GlobalState._feature_extractor: FALSE is None
    text_model,         \* GlobalState._text_model: FALSE is None
    built,              \* per resource, the instances constructed and assigned so far
    op,                 \* the handler in flight: "none", "text", "image", "heatmap", "binary"
    query,              \* the query of the request: "words", "image", "empty", "absent"
    pc,                 \* the position inside the handler
    limit,              \* the limit argument of the service call
    threshold,          \* the threshold argument of the service call, in hundredths
    filters,            \* the filters argument: <<>> is None, <<f>> a SearchFilters
    q_filter,           \* local q_filter: <<>> is None, <<p>> a models.Filter
    text_vec,           \* the vector the text model returned to this request
    pe_vec,             \* the vector the feature extractor returned to this request
    hits_doc,           \* the store's answer for the document collection
    hits_map,           \* the store's answer for the map collection
    doc_results,        \* local doc_results of the search
    map_results,        \* local map_results of the search
    final_results,      \* local final_results of the search
    points,             \* local points of get_heatmap_data
    issued,             \* the store queries issued by the request in flight
    failed,             \* the sources whose try block ended in its except clause
    response            \* the HTTP answer of the request in flight

vars == <<db_client, feature_extractor, text_model, built, op, query, pc, limit,
          threshold, filters,
          q_filter, text_vec, pe_vec, hits_doc,
          hits_map, doc_results, map_results, final_results, points, issued,
          failed, response>>

NoResponse == [code |-> 0]

\* no resource has been constructed yet
NoneBuilt == [db_client |-> 0, feature_extractor |-> 0, text_model |-> 0]

\* a getter that constructs an instance on every call that returns
ConstructionsEveryCall(before, after) == IF after THEN 1 ELSE 0

\* the instances one getter call constructs: `if cls._x is None: cls._x = X(...)`
\* builds one when the attribute was None and the constructor returned
Constructions(before, after) == IF ~before /\ after THEN 1 ELSE 0

\* the threshold values requests carry: the default 0.2 and another one
Thresholds == {20, 50}

\* no embedding has returned yet
NoVector == [model |-> "none", input |-> "none"]

\* the vector a model returns for an input
Vector(model, input) == [model |-> model, input |-> input]

\* ------------------------------------------------------------ arithmetic
Min(a, b) == IF a <= b THEN a ELSE b
Max(a, b) == IF a >= b THEN a ELSE b

RECURSIVE SumOver(_, _)
\* sum of f over the indices 1..Len(f)
SumOver(f, k) == IF k = 0 THEN 0 ELSE f[k] + SumOver(f, k - 1)

\* a raw similarity score as the store returns it
RawScore(s) == [n |-> s, d |-> 100, r |-> 1]

\* sign(x) * x * x * r: the order-preserving square of x * sqrt(r)
SignedSquare(x, r) == IF x >= 0 THEN x * x * r ELSE 0 - (x * x * r)

\* a > b on exact scores: a.n/(a.d sqrt a.r) > b.n/(b.d sqrt b.r)
ScoreGt(a, b) ==
    SignedSquare(a.n * b.d, b.r) > SignedSquare(b.n * a.d, a.r)

\* score > threshold for an integer threshold in hundredths
AboveThreshold(a, t) == ScoreGt(a, RawScore(t))

\* --------------------------------------------------------------- the store
\* what query_points can answer for a limit: at most that many points, best
\* first, drawn from the grid
StoreAnswers(grid, lim) ==
    {h \in UNION {[1 .. k -> grid] : k \in 0 .. Min(Max(lim, 0), MaxHits)} :
        \A i \in 1 .. (Len(h) - 1) : h[i] >= h[i + 1]}

\* the points of an answer, numbered in the order the store returned them
AsHits(h) == [i \in 1 .. Len(h) |-> [id |-> i, score |-> h[i]]]

\* payload.get(key): the value stored under the key, None when there is none;
\* <<>> is None, <<v>> the value v
PayloadGet(hit, key) == IF key \in DOMAIN hit THEN <<hit[key]>> ELSE <<>>

\* ------------------------------------------------------ SearchService helpers
\* _hits_to_results: one SearchResultItem per hit, in the store's order
hits_to_results(hits, result_type) ==
    [i \in 1 .. Len(hits) |->
        [id |-> hits[i].id, type |-> result_type, score |-> RawScore(hits[i].score),
         pixel_coords |-> PayloadGet(hits[i], "pixel_coords")]]

\* [r for r in raw if r.score > MIN_SCORE]
AbsoluteFilter(raw, min_score) ==
    SelectSeq(raw, LAMBDA x : AboveThreshold(x.score, min_score))

\* _normalize_scores with the std = 0 case answered by centering alone
normalize_scores_centered(results) ==
    IF Len(results) < 2
    THEN results
    ELSE
        LET N == Len(results)
            S == SumOver([i \in 1 .. N |-> results[i].score.n], N)
            Q == SumOver([i \in 1 .. N |-> results[i].score.n * results[i].score.n], N)
            V == N * Q - S * S
        IN  [i \in 1 .. N |->
                [results[i] EXCEPT
                    !.score = [n |-> N * results[i].score.n - S, d |-> 1,
                               r |-> IF V = 0 THEN 1 ELSE V]]]

\* _normalize_scores dividing by std without subtracting the mean
normalize_scores_uncentered(results) ==
    IF Len(results) < 2
    THEN results
    ELSE
        LET N == Len(results)
            S == SumOver([i \in 1 .. N |-> results[i].score.n], N)
            Q == SumOver([i \in 1 .. N |-> results[i].score.n * results[i].score.n], N)
            V == N * Q - S * S
        IN  IF V = 0
            THEN results
            ELSE [i \in 1 .. N |->
                    [results[i] EXCEPT
                        !.score = [n |-> N * results[i].score.n, d |-> 1, r |-> V]]]

\* _normalize_scores with the sign of the z-score turned around
normalize_scores_inverted(results) ==
    IF Len(results) < 2
    THEN results
    ELSE
        LET N == Len(results)
            S == SumOver([i \in 1 .. N |-> results[i].score.n], N)
            Q == SumOver([i \in 1 .. N |-> results[i].score.n * results[i].score.n], N)
            V == N * Q - S * S
        IN  IF V = 0
            THEN results
            ELSE [i \in 1 .. N |->
                    [results[i] EXCEPT
                        !.score = [n |-> S - N * results[i].score.n, d |-> 1, r |-> V]]]

\* _normalize_scores: z = (x - mean) / std over the scores of this list only;
\* lists of fewer than 2 items and lists with std = 0 are returned as they are
normalize_scores(results) ==
    IF Len(results) < 2
    THEN results
    ELSE
        LET N == Len(results)
            S == SumOver([i \in 1 .. N |-> results[i].score.n], N)
            Q == SumOver([i \in 1 .. N |-> results[i].score.n * results[i].score.n], N)
            V == N * Q - S * S
        IN  IF V = 0
            THEN results
            ELSE [i \in 1 .. N |->
                    [results[i] EXCEPT
                        !.score = [n |-> N * results[i].score.n - S, d |-> 1, r |-> V]]]

\* the relative filter written with >= in place of >
RelativeFilterInclusive(all_results) ==
    SelectSeq(all_results,
              LAMBDA x : ~ScoreGt(RawScore(Z_SCORE_THRESHOLD), x.score))

\* [r for r in all_results if r.score > Z_SCORE_THRESHOLD]
RelativeFilter(all_results) ==
    SelectSeq(all_results, LAMBDA x : AboveThreshold(x.score, Z_SCORE_THRESHOLD))

RECURSIVE InsertDescUnstable(_, _)
\* x placed ahead of the items of the sorted list whose score equals its own
InsertDescUnstable(sorted, x) ==
    IF sorted = <<>>
    THEN <<x>>
    ELSE IF ~ScoreGt(Head(sorted).score, x.score)
         THEN <<x>> \o sorted
         ELSE <<Head(sorted)>> \o InsertDescUnstable(Tail(sorted), x)

RECURSIVE InsertDesc(_, _)
\* x placed behind every item of the sorted list whose score is >= its own
InsertDesc(sorted, x) ==
    IF sorted = <<>>
    THEN <<x>>
    ELSE IF ScoreGt(x.score, Head(sorted).score)
         THEN <<x>> \o sorted
         ELSE <<Head(sorted)>> \o InsertDesc(Tail(sorted), x)

RECURSIVE SortDesc(_, _)
\* list.sort(key=score, reverse=True): descending and stable
SortDesc(items, k) ==
    IF k = 0 THEN <<>> ELSE InsertDesc(SortDesc(items, k - 1), items[k])

\* results[:lim], Python's slice: a negative lim drops the last -lim items
SliceTo(results, lim) ==
    IF lim >= 0
    THEN SubSeq(results, 1, Min(lim, Len(results)))
    ELSE SubSeq(results, 1, Max(Len(results) + lim, 0))

\* the end of both searches with the sort left out
FilterTruncateUnsorted(all_results, lim) ==
    SliceTo(RelativeFilter(all_results), lim)

\* the relative filter, the sort and the truncation that end both searches
FilterSortTruncate(all_results, lim) ==
    LET kept == RelativeFilter(all_results)
    IN  SliceTo(SortDesc(kept, Len(kept)), lim)

\* SearchResponse(status="success", count=len(results), data=results)
SearchResponse(results) ==
    [code |-> 200, status |-> "success", count |-> Len(results), data |-> results]

\* HTTPException(status_code=...)
HttpError(status_code) == [code |-> status_code]

\* ------------------------------------------------------- filter translation
\* an Optional value: <<>> is None, <<v>> is the value v
None == <<>>
Some(v) == <<v>>

\* an optional string Python takes as true: not None and not ""
TruthyStr(opt) == opt # None /\ opt[1] # ""

\* an optional list Python takes as true: not None and not []
TruthyList(opt) == opt # None /\ opt[1] # <<>>

\* the condition appended for a 4-element geo_bbox, with the corners swapped
\* between longitude and latitude
GeoConditionSwapped(bbox) ==
    [key |-> "location",
     bottom_right |-> [lon |-> bbox[2], lat |-> bbox[3]],
     top_left |-> [lon |-> bbox[4], lat |-> bbox[1]]]

\* FieldCondition(key="location", geo_bounding_box=GeoBoundingBox(
\*     bottom_right=GeoPoint(lon=bbox[2], lat=bbox[1]),
\*     top_left=GeoPoint(lon=bbox[0], lat=bbox[3])))   (Python indexes from 0)
GeoCondition(bbox) ==
    [key |-> "location",
     bottom_right |-> [lon |-> bbox[3], lat |-> bbox[2]],
     top_left |-> [lon |-> bbox[1], lat |-> bbox[4]]]

\* a Filter built whatever the number of conditions
FilterOfAlways(conditions) == Some([must |-> conditions])

\* return models.Filter(must=conditions) if conditions else None
FilterOf(conditions) ==
    IF conditions # <<>> THEN Some([must |-> conditions]) ELSE None

\* _build_qdrant_filters: one condition per usable field, in the order year
\* start, year end, source, bounding box; None when there is no filters object
\* or no condition
build_qdrant_filters(f) ==
    IF f = None
    THEN None
    ELSE
        LET flt == f[1]
            c1 == IF flt.year_start # None
                  THEN <<[key |-> "year", gte |-> flt.year_start[1]]>>
                  ELSE <<>>
            c2 == IF flt.year_end # None
                  THEN <<[key |-> "year", lte |-> flt.year_end[1]]>>
                  ELSE <<>>
            c3 == IF TruthyStr(flt.map_source)
                  THEN <<[key |-> "source_image", match |-> flt.map_source[1]]>>
                  ELSE <<>>
            c4 == IF TruthyList(flt.geo_bbox) /\ Len(flt.geo_bbox[1]) = 4
                  THEN <<GeoCondition(flt.geo_bbox[1])>>
                  ELSE <<>>
        IN  FilterOf(c1 \o c2 \o c3 \o c4)

\* the filters the requests of the search model carry
RequestFilters == {None}

Init ==
    /\ db_client = FALSE
    /\ feature_extractor = FALSE
    /\ text_model = FALSE
    /\ built = NoneBuilt
    /\ op = "none"
    /\ query = "absent"
    /\ pc = "init_db"
    /\ limit = 0
    /\ threshold = 0
    /\ filters = <<>>
    /\ q_filter = <<>>
    /\ text_vec = NoVector
    /\ pe_vec = NoVector
    /\ hits_doc = <<>>
    /\ hits_map = <<>>
    /\ doc_results = <<>>
    /\ map_results = <<>>
    /\ final_results = <<>>
    /\ points = <<>>
    /\ issued = {}
    /\ failed = {}
    /\ response = NoResponse

\* the locals of a request, as they are when a handler is entered
FreshLocals ==
    /\ q_filter' = <<>>
    /\ text_vec' = NoVector
    /\ pe_vec' = NoVector
    /\ hits_doc' = <<>>
    /\ hits_map' = <<>>
    /\ doc_results' = <<>>
    /\ map_results' = <<>>
    /\ final_results' = <<>>
    /\ points' = <<>>
    /\ issued' = {}
    /\ failed' = {}
    /\ response' = NoResponse

Globals == <<db_client, feature_extractor, text_model, built>>
Locals == <<hits_doc, hits_map, doc_results, map_results, final_results,
            points, issued, failed, response>>

\* ------------------------------------------------- startup: init_resources
\* init_resources, GlobalState.get_db(): the client is built
InitDbOk ==
    /\ pc = "init_db"
    /\ db_client' = TRUE
    /\ built' = [built EXCEPT !.db_client = @ + Constructions(db_client, TRUE)]
    /\ pc' = "init_pe"
    /\ UNCHANGED <<feature_extractor, text_model, op, query, limit, threshold, filters,
                   q_filter, text_vec, pe_vec, Locals>>

\* init_resources, GlobalState.get_pe_model(): the extractor is built
InitPeOk ==
    /\ pc = "init_pe"
    /\ feature_extractor' = TRUE
    /\ built' = [built EXCEPT !.feature_extractor = @ + Constructions(feature_extractor, TRUE)]
    /\ pc' = "init_text"
    /\ UNCHANGED <<db_client, text_model, op, query, limit, threshold, filters,
                   q_filter, text_vec, pe_vec, Locals>>

\* init_resources, GlobalState.get_text_model(): the model is loaded
InitTextOk ==
    /\ pc = "init_text"
    /\ text_model' = TRUE
    /\ built' = [built EXCEPT !.text_model = @ + Constructions(text_model, TRUE)]
    /\ pc' = "idle"
    /\ UNCHANGED <<db_client, feature_extractor, op, query, limit, threshold, filters,
                   q_filter, text_vec, pe_vec, Locals>>

\* a constructor raises and init_resources goes on with the next resource
InitFailGoesOn ==
    /\ pc \in {"init_db", "init_pe", "init_text"}
    /\ pc' = CASE pc = "init_db" -> "init_pe"
               [] pc = "init_pe" -> "init_text"
               [] OTHER -> "idle"
    /\ UNCHANGED <<Globals, op, query, limit, threshold, filters,
                   q_filter, text_vec, pe_vec, Locals>>

\* a constructor raises: init_resources stops there, startup_event swallows it
InitFail ==
    /\ pc \in {"init_db", "init_pe", "init_text"}
    /\ pc' = "idle"
    /\ UNCHANGED <<Globals, op, query, limit, threshold, filters,
                   q_filter, text_vec, pe_vec, Locals>>

\* ------------------------------------------------------------ the request
\* a handler returned: the answer is sent and the locals are gone
Finish ==
    /\ pc = "done"
    /\ pc' = "idle"
    /\ op' = "none"
    /\ query' = "absent"
    /\ limit' = 0
    /\ threshold' = 0
    /\ filters' = <<>>
    /\ FreshLocals
    /\ UNCHANGED Globals

\* a query_points call of the request, as it is put on the wire
Query(coll, using, vec, flt, lim) ==
    [call |-> "query_points", coll |-> coll, using |-> using, query |-> vec,
     query_filter |-> flt, limit |-> lim]

\* the store takes a query only with a limit that is no negative number
StoreAccepts(lim) == lim >= 0

\* ------------------------------------- POST /search/text: search_by_text
\* the endpoint calls search_service.search_text(query, limit, threshold, filters)
StartText ==
    /\ pc = "idle"
    /\ \E l \in Limits : limit' = l
    /\ \E t \in Thresholds : threshold' = t
    /\ op' = "text"
    /\ query' = "words"
    /\ \E f \in RequestFilters : filters' = f
    /\ pc' = "get_db"
    /\ FreshLocals
    /\ UNCHANGED Globals

\* search_text: client = GlobalState.get_db() returns the singleton
TextGetDbOk ==
    /\ op = "text" /\ pc = "get_db"
    /\ db_client' = TRUE
    /\ built' = [built EXCEPT !.db_client = @ + Constructions(db_client, TRUE)]
    /\ q_filter' = build_qdrant_filters(filters)
    /\ pc' = "doc_embed"
    /\ UNCHANGED <<feature_extractor, text_model, op, query, limit, threshold, filters, text_vec, pe_vec, Locals>>

\* search_text: get_db() has no client yet and QdrantClient(...) raises; the
\* call is outside the try blocks, so search_by_text answers 500
TextGetDbFail ==
    /\ op = "text" /\ pc = "get_db"
    /\ db_client = FALSE
    /\ failed' = failed \cup {"client"}
    /\ response' = HttpError(500)
    /\ pc' = "done"
    /\ UNCHANGED <<Globals, op, query, limit, threshold, filters,
                   q_filter, text_vec, pe_vec, hits_doc, hits_map, doc_results,
                   map_results, final_results, points, issued>>

\* search_text: get_text_model() and text_model.encode(query) return
TextDocEmbedOk ==
    /\ op = "text" /\ pc = "doc_embed"
    /\ text_model' = TRUE
    /\ built' = [built EXCEPT !.text_model = @ + Constructions(text_model, TRUE)]
    /\ text_vec' = Vector("text_model", query)
    /\ pc' = "doc_query"
    /\ UNCHANGED <<db_client, feature_extractor, op, query, limit, threshold, filters,
                   q_filter, pe_vec, Locals>>

\* the embedding of search_text raising and the document query going out anyway
TextDocEmbedFailStillQueries ==
    /\ op = "text" /\ pc = "doc_embed"
    /\ \E loaded \in {text_model, TRUE} :
        /\ text_model' = loaded
        /\ built' = [built EXCEPT !.text_model = @ + Constructions(text_model, loaded)]
    /\ failed' = failed \cup {"doc"}
    /\ pc' = "doc_query"
    /\ UNCHANGED <<db_client, feature_extractor, op, query, limit, threshold, filters,
                   q_filter, text_vec, pe_vec, hits_doc, hits_map,
                   doc_results, map_results, final_results, points, issued, response>>

\* search_text: loading the text model or encoding raises; except prints
TextDocEmbedFail ==
    /\ op = "text" /\ pc = "doc_embed"
    /\ \E loaded \in {text_model, TRUE} :
        /\ text_model' = loaded
        /\ built' = [built EXCEPT !.text_model = @ + Constructions(text_model, loaded)]
    /\ failed' = failed \cup {"doc"}
    /\ pc' = "map_embed"
    /\ UNCHANGED <<db_client, feature_extractor, op, query, limit, threshold, filters,
                   q_filter, text_vec, pe_vec, hits_doc, hits_map,
                   doc_results, map_results, final_results, points, issued, response>>

\* the document query of search_text gated by the request's threshold
TextDocQueryOkThreshold ==
    /\ op = "text" /\ pc = "doc_query"
    /\ StoreAccepts(limit * 2)
    /\ \E h \in StoreAnswers(TextGrid, limit * 2) :
        /\ hits_doc' = AsHits(h)
        /\ doc_results' =
             AbsoluteFilter(hits_to_results(AsHits(h), "document"), threshold)
    /\ issued' = issued \cup {Query("doc", "text_vector", text_vec, q_filter, limit * 2)}
    /\ pc' = "map_embed"
    /\ UNCHANGED <<Globals, op, query, limit, threshold, filters,
                   q_filter, text_vec, pe_vec, hits_map, map_results, final_results,
                   points, failed, response>>

\* search_text: query_points on the document collection answers; the hits
\* become items and the absolute floor is applied
TextDocQueryOk ==
    /\ op = "text" /\ pc = "doc_query"
    /\ StoreAccepts(limit * 2)
    /\ \E h \in StoreAnswers(TextGrid, limit * 2) :
        /\ hits_doc' = AsHits(h)
        /\ doc_results' =
             AbsoluteFilter(hits_to_results(AsHits(h), "document"), DOC_MIN_SCORE)
    /\ issued' = issued \cup {Query("doc", "text_vector", text_vec, q_filter, limit * 2)}
    /\ pc' = "map_embed"
    /\ UNCHANGED <<Globals, op, query, limit, threshold, filters,
                   q_filter, text_vec, pe_vec, hits_map, map_results, final_results,
                   points, failed, response>>

\* the document query of search_text raising with no try block around it
TextDocQueryFailAborts ==
    /\ op = "text" /\ pc = "doc_query"
    /\ issued' = issued \cup {Query("doc", "text_vector", text_vec, q_filter, limit * 2)}
    /\ failed' = failed \cup {"doc"}
    /\ response' = HttpError(500)
    /\ pc' = "done"
    /\ UNCHANGED <<Globals, op, query, limit, threshold, filters,
                   q_filter, text_vec, pe_vec, hits_doc, hits_map, doc_results,
                   map_results, final_results, points>>

\* search_text: query_points on the document collection raises; except prints
TextDocQueryFail ==
    /\ op = "text" /\ pc = "doc_query"
    /\ issued' = issued \cup {Query("doc", "text_vector", text_vec, q_filter, limit * 2)}
    /\ failed' = failed \cup {"doc"}
    /\ pc' = "map_embed"
    /\ UNCHANGED <<Globals, op, query, limit, threshold, filters,
                   q_filter, text_vec, pe_vec, hits_doc, hits_map, doc_results,
                   map_results, final_results, points, response>>

\* search_text: text_model.encode(query) never returns; nothing bounds the call
TextDocEmbedHang ==
    /\ op = "text" /\ pc = "doc_embed"
    /\ pc' = "doc_hung"
    /\ UNCHANGED <<Globals, op, query, limit, threshold, filters,
                   q_filter, text_vec, pe_vec, Locals>>

\* search_text: query_points on the document collection never returns; nothing
\* bounds the call
TextDocQueryHang ==
    /\ op = "text" /\ pc = "doc_query"
    /\ issued' = issued \cup {Query("doc", "text_vector", text_vec, q_filter, limit * 2)}
    /\ pc' = "doc_hung"
    /\ UNCHANGED <<Globals, op, query, limit, threshold, filters,
                   q_filter, text_vec, pe_vec, hits_doc, hits_map, doc_results,
                   map_results, final_results, points, failed, response>>

\* search_text: get_pe_model() and extract_text_features(query) return
TextMapEmbedOk ==
    /\ op = "text" /\ pc = "map_embed"
    /\ feature_extractor' = TRUE
    /\ built' = [built EXCEPT !.feature_extractor = @ + Constructions(feature_extractor, TRUE)]
    /\ pe_vec' = Vector("pe_text", query)
    /\ pc' = "map_query"
    /\ UNCHANGED <<db_client, text_model, op, query, limit, threshold, filters,
                   q_filter, text_vec, Locals>>

\* search_text: building the extractor or embedding raises; except prints
TextMapEmbedFail ==
    /\ op = "text" /\ pc = "map_embed"
    /\ \E loaded \in {feature_extractor, TRUE} :
        /\ feature_extractor' = loaded
        /\ built' = [built EXCEPT !.feature_extractor = @ + Constructions(feature_extractor, loaded)]
    /\ failed' = failed \cup {"map"}
    /\ pc' = "normalize"
    /\ UNCHANGED <<db_client, text_model, op, query, limit, threshold, filters,
                   q_filter, text_vec, pe_vec, hits_doc, hits_map,
                   doc_results, map_results, final_results, points, issued, response>>

\* search_text: query_points on the map collection answers; the hits become
\* items and the absolute floor is applied
TextMapQueryOk ==
    /\ op = "text" /\ pc = "map_query"
    /\ StoreAccepts(limit * 2)
    /\ \E h \in StoreAnswers(TextGrid, limit * 2) :
        /\ hits_map' = AsHits(h)
        /\ map_results' =
             AbsoluteFilter(hits_to_results(AsHits(h), "map_tile"), MAP_MIN_SCORE)
    /\ issued' = issued \cup {Query("map", "default", pe_vec, q_filter, limit * 2)}
    /\ pc' = "normalize"
    /\ UNCHANGED <<Globals, op, query, limit, threshold, filters,
                   q_filter, text_vec, pe_vec, hits_doc, doc_results, final_results,
                   points, failed, response>>

\* search_text: query_points on the map collection raises; except prints
TextMapQueryFail ==
    /\ op = "text" /\ pc = "map_query"
    /\ issued' = issued \cup {Query("map", "default", pe_vec, q_filter, limit * 2)}
    /\ failed' = failed \cup {"map"}
    /\ pc' = "normalize"
    /\ UNCHANGED <<Globals, op, query, limit, threshold, filters,
                   q_filter, text_vec, pe_vec, hits_doc, hits_map, doc_results,
                   map_results, final_results, points, response>>

\* search_text normalizing the two lists as one list
TextNormalizeJoint ==
    /\ op = "text" /\ pc = "normalize"
    /\ LET joint == normalize_scores(doc_results \o map_results)
       IN  /\ doc_results' = SubSeq(joint, 1, Len(doc_results))
           /\ map_results' = SubSeq(joint, Len(doc_results) + 1, Len(joint))
    /\ pc' = "fuse"
    /\ UNCHANGED <<Globals, op, query, limit, threshold, filters,
                   q_filter, text_vec, pe_vec, hits_doc, hits_map, final_results,
                   points, issued, failed, response>>

\* search_text: each non-empty list is normalized on its own
TextNormalize ==
    /\ op = "text" /\ pc = "normalize"
    /\ doc_results' =
         IF doc_results # <<>> THEN normalize_scores(doc_results) ELSE doc_results
    /\ map_results' =
         IF map_results # <<>> THEN normalize_scores(map_results) ELSE map_results
    /\ pc' = "fuse"
    /\ UNCHANGED <<Globals, op, query, limit, threshold, filters,
                   q_filter, text_vec, pe_vec, hits_doc, hits_map, final_results,
                   points, issued, failed, response>>

\* search_text: all_results = doc_results + map_results, then the relative
\* filter, the sort and final_results[:limit]
TextFuse ==
    /\ op = "text" /\ pc = "fuse"
    /\ final_results' = FilterSortTruncate(doc_results \o map_results, limit)
    /\ pc' = "respond"
    /\ UNCHANGED <<Globals, op, query, limit, threshold, filters,
                   q_filter, text_vec, pe_vec, hits_doc, hits_map, doc_results,
                   map_results, points, issued, failed, response>>

\* search_by_text: the list is wrapped into the success envelope
TextRespond ==
    /\ op = "text" /\ pc = "respond"
    /\ response' = SearchResponse(final_results)
    /\ pc' = "done"
    /\ UNCHANGED <<Globals, op, query, limit, threshold, filters,
                   q_filter, text_vec, pe_vec, hits_doc, hits_map, doc_results,
                   map_results, final_results, points, issued, failed>>

SearchText ==
    \/ StartText
    \/ TextGetDbOk
    \/ TextGetDbFail
    \/ TextDocEmbedOk
    \/ TextDocEmbedFail
    \/ TextDocQueryOk
    \/ TextDocQueryFail
    \/ TextDocEmbedHang
    \/ TextDocQueryHang
    \/ TextMapEmbedOk
    \/ TextMapEmbedFail
    \/ TextMapQueryOk
    \/ TextMapQueryFail
    \/ TextNormalize
    \/ TextFuse
    \/ TextRespond

\* ------------------------------------ POST /search/image: search_by_image
\* the endpoint reads the upload and calls search_service.search_image
StartImage ==
    /\ pc = "idle"
    /\ \E l \in Limits : limit' = l
    /\ \E t \in Thresholds : threshold' = t
    /\ op' = "image"
    /\ query' = "image"
    /\ filters' = <<>>
    /\ pc' = "get_db"
    /\ FreshLocals
    /\ UNCHANGED Globals

\* search_image: client = GlobalState.get_db() returns the singleton
ImageGetDbOk ==
    /\ op = "image" /\ pc = "get_db"
    /\ db_client' = TRUE
    /\ built' = [built EXCEPT !.db_client = @ + Constructions(db_client, TRUE)]
    /\ pc' = "get_pe"
    /\ UNCHANGED <<feature_extractor, text_model, op, query, limit, threshold, filters,
                   q_filter, text_vec, pe_vec, Locals>>

\* search_image: QdrantClient(...) raises; search_by_image answers 500
ImageGetDbFail ==
    /\ op = "image" /\ pc = "get_db"
    /\ db_client = FALSE
    /\ failed' = failed \cup {"client"}
    /\ response' = HttpError(500)
    /\ pc' = "done"
    /\ UNCHANGED <<Globals, op, query, limit, threshold, filters,
                   q_filter, text_vec, pe_vec, hits_doc, hits_map, doc_results,
                   map_results, final_results, points, issued>>

\* search_image: pe_model = GlobalState.get_pe_model() returns the singleton
ImageGetPeOk ==
    /\ op = "image" /\ pc = "get_pe"
    /\ feature_extractor' = TRUE
    /\ built' = [built EXCEPT !.feature_extractor = @ + Constructions(feature_extractor, TRUE)]
    /\ pc' = "img_embed"
    /\ UNCHANGED <<db_client, text_model, op, query, limit, threshold, filters,
                   q_filter, text_vec, pe_vec, Locals>>

\* search_image: PEFeatureExtractor(...) raises; search_by_image answers 500
ImageGetPeFail ==
    /\ op = "image" /\ pc = "get_pe"
    /\ feature_extractor = FALSE
    /\ failed' = failed \cup {"extractor"}
    /\ response' = HttpError(500)
    /\ pc' = "done"
    /\ UNCHANGED <<Globals, op, query, limit, threshold, filters,
                   q_filter, text_vec, pe_vec, hits_doc, hits_map, doc_results,
                   map_results, final_results, points, issued>>

\* search_image: Image.open and extract_image_features return the vector
ImageEmbedOk ==
    /\ op = "image" /\ pc = "img_embed"
    /\ pe_vec' = Vector("pe_image", query)
    /\ pc' = "map_query"
    /\ UNCHANGED <<Globals, op, query, limit, threshold, filters,
                   q_filter, text_vec, Locals>>

\* search_image: Image.open raises on the upload: ValueError, answered 400
ImageOpenFail ==
    /\ op = "image" /\ pc = "img_embed"
    /\ failed' = failed \cup {"image"}
    /\ response' = HttpError(400)
    /\ pc' = "done"
    /\ UNCHANGED <<Globals, op, query, limit, threshold, filters,
                   q_filter, text_vec, pe_vec, hits_doc, hits_map, doc_results,
                   map_results, final_results, points, issued>>

\* search_image: extract_image_features raises on a well-formed image; the
\* same except clause turns it into ValueError, answered 400
ImageEmbedFail ==
    /\ op = "image" /\ pc = "img_embed"
    /\ failed' = failed \cup {"embed"}
    /\ response' = HttpError(400)
    /\ pc' = "done"
    /\ UNCHANGED <<Globals, op, query, limit, threshold, filters,
                   q_filter, text_vec, pe_vec, hits_doc, hits_map, doc_results,
                   map_results, final_results, points, issued>>

\* search_image: query_points on the map collection answers
ImageMapQueryOk ==
    /\ op = "image" /\ pc = "map_query"
    /\ StoreAccepts(limit * 2)
    /\ \E h \in StoreAnswers(ImageGrid, limit * 2) :
        /\ hits_map' = AsHits(h)
        /\ map_results' =
             AbsoluteFilter(hits_to_results(AsHits(h), "map_tile"), MAP_IMG_MIN_SCORE)
    /\ issued' = issued \cup {Query("map", "default", pe_vec, <<>>, limit * 2)}
    /\ pc' = "doc_query"
    /\ UNCHANGED <<Globals, op, query, limit, threshold, filters,
                   q_filter, text_vec, pe_vec, hits_doc, doc_results, final_results,
                   points, failed, response>>

\* search_image: query_points on the map collection raises; except prints
ImageMapQueryFail ==
    /\ op = "image" /\ pc = "map_query"
    /\ issued' = issued \cup {Query("map", "default", pe_vec, <<>>, limit * 2)}
    /\ failed' = failed \cup {"map"}
    /\ pc' = "doc_query"
    /\ UNCHANGED <<Globals, op, query, limit, threshold, filters,
                   q_filter, text_vec, pe_vec, hits_doc, hits_map, doc_results,
                   map_results, final_results, points, response>>

\* search_image: query_points on the document collection (pe_vector) answers
ImageDocQueryOk ==
    /\ op = "image" /\ pc = "doc_query"
    /\ StoreAccepts(limit * 2)
    /\ \E h \in StoreAnswers(ImageGrid, limit * 2) :
        /\ hits_doc' = AsHits(h)
        /\ doc_results' =
             AbsoluteFilter(hits_to_results(AsHits(h), "document"), DOC_IMG_MIN_SCORE)
    /\ issued' = issued \cup {Query("doc", "pe_vector", pe_vec, <<>>, limit * 2)}
    /\ pc' = "normalize"
    /\ UNCHANGED <<Globals, op, query, limit, threshold, filters,
                   q_filter, text_vec, pe_vec, hits_map, map_results, final_results,
                   points, failed, response>>

\* search_image: query_points on the document collection raises; except prints
ImageDocQueryFail ==
    /\ op = "image" /\ pc = "doc_query"
    /\ issued' = issued \cup {Query("doc", "pe_vector", pe_vec, <<>>, limit * 2)}
    /\ failed' = failed \cup {"doc"}
    /\ pc' = "normalize"
    /\ UNCHANGED <<Globals, op, query, limit, threshold, filters,
                   q_filter, text_vec, pe_vec, hits_doc, hits_map, doc_results,
                   map_results, final_results, points, response>>

\* search_image: each non-empty list is normalized on its own
ImageNormalize ==
    /\ op = "image" /\ pc = "normalize"
    /\ map_results' =
         IF map_results # <<>> THEN normalize_scores(map_results) ELSE map_results
    /\ doc_results' =
         IF doc_results # <<>> THEN normalize_scores(doc_results) ELSE doc_results
    /\ pc' = "fuse"
    /\ UNCHANGED <<Globals, op, query, limit, threshold, filters,
                   q_filter, text_vec, pe_vec, hits_doc, hits_map, final_results,
                   points, issued, failed, response>>

\* search_image: all_results = map_results + doc_results, then the relative
\* filter, the sort and final_results[:limit]
ImageFuse ==
    /\ op = "image" /\ pc = "fuse"
    /\ final_results' = FilterSortTruncate(map_results \o doc_results, limit)
    /\ pc' = "respond"
    /\ UNCHANGED <<Globals, op, query, limit, threshold, filters,
                   q_filter, text_vec, pe_vec, hits_doc, hits_map, doc_results,
                   map_results, points, issued, failed, response>>

\* search_by_image: the list is wrapped into the success envelope
ImageRespond ==
    /\ op = "image" /\ pc = "respond"
    /\ response' = SearchResponse(final_results)
    /\ pc' = "done"
    /\ UNCHANGED <<Globals, op, query, limit, threshold, filters,
                   q_filter, text_vec, pe_vec, hits_doc, hits_map, doc_results,
                   map_results, final_results, points, issued, failed>>

SearchImage ==
    \/ StartImage
    \/ ImageGetDbOk
    \/ ImageGetDbFail
    \/ ImageGetPeOk
    \/ ImageGetPeFail
    \/ ImageEmbedOk
    \/ ImageOpenFail
    \/ ImageEmbedFail
    \/ ImageMapQueryOk
    \/ ImageMapQueryFail
    \/ ImageDocQueryOk
    \/ ImageDocQueryFail
    \/ ImageNormalize
    \/ ImageFuse
    \/ ImageRespond

\* ----------------------------------- GET /heatmap-data: get_heatmap_data
\* limits a caller may send to the heatmap endpoint
HeatmapLimits == Limits \cup {HEATMAP_CAP, HEATMAP_CAP + 1}

\* what query_points answers with with_payload=["location"]: each hit comes
\* with its location or without one
HeatAnswers(grid, lim) ==
    {[i \in 1 .. Len(h) |-> [id |-> i, score |-> h[i], loc |-> i \in located]] :
        h \in StoreAnswers(grid, lim), located \in SUBSET (1 .. MaxHits)}

\* the points of the located hits, every one with the hit's score as it is
HeatPointsUnboosted(hits, source, boost) ==
    LET located == SelectSeq(hits, LAMBDA h : h.loc)
    IN  [i \in 1 .. Len(located) |->
            [source |-> source, id |-> located[i].id,
             score |-> [n |-> located[i].score * 10, d |-> 1000, r |-> 1]]]

\* HeatmapPoint(lat=loc['lat'], lng=loc['lon'], score=...) of the located hits;
\* boost is in tenths: the document score is taken as it is (10), the map
\* score is multiplied by 1.1 (11)
HeatPoints(hits, source, boost) ==
    LET located == SelectSeq(hits, LAMBDA h : h.loc)
    IN  [i \in 1 .. Len(located) |->
            [source |-> source, id |-> located[i].id,
             score |-> [n |-> located[i].score * boost, d |-> 1000, r |-> 1]]]

\* HeatmapResponse(status="success", count=len(points), data=points)
HeatmapResponse(pts) ==
    [code |-> 200, status |-> "success", count |-> Len(pts), data |-> pts]

\* the endpoint caps the limit and calls search_service.get_heatmap_data
StartHeatmap ==
    /\ pc = "idle"
    /\ \E l \in HeatmapLimits : limit' = Min(l, HEATMAP_CAP)
    /\ \E q \in {"absent", "empty", "words"} : query' = q
    /\ op' = "heatmap"
    /\ threshold' = 0
    /\ filters' = <<>>
    /\ pc' = "get_db"
    /\ FreshLocals
    /\ UNCHANGED Globals

\* get_heatmap_data: client = GlobalState.get_db() returns the singleton
HeatGetDbOk ==
    /\ op = "heatmap" /\ pc = "get_db"
    /\ db_client' = TRUE
    /\ built' = [built EXCEPT !.db_client = @ + Constructions(db_client, TRUE)]
    /\ pc' = "doc_embed"
    /\ UNCHANGED <<feature_extractor, text_model, op, query, limit, threshold, filters,
                   q_filter, text_vec, pe_vec, Locals>>

\* get_heatmap_data: QdrantClient(...) raises; the endpoint answers 500
HeatGetDbFail ==
    /\ op = "heatmap" /\ pc = "get_db"
    /\ db_client = FALSE
    /\ failed' = failed \cup {"client"}
    /\ response' = HttpError(500)
    /\ pc' = "done"
    /\ UNCHANGED <<Globals, op, query, limit, threshold, filters,
                   q_filter, text_vec, pe_vec, hits_doc, hits_map, doc_results,
                   map_results, final_results, points, issued>>

\* get_heatmap_data: get_text_model() and encode(query) return
HeatDocEmbedOk ==
    /\ op = "heatmap" /\ pc = "doc_embed"
    /\ text_model' = TRUE
    /\ built' = [built EXCEPT !.text_model = @ + Constructions(text_model, TRUE)]
    /\ text_vec' = Vector("text_model", query)
    /\ pc' = "doc_query"
    /\ UNCHANGED <<db_client, feature_extractor, op, query, limit, threshold, filters,
                   q_filter, pe_vec, Locals>>

\* get_heatmap_data: loading or encoding raises; except: pass
HeatDocEmbedFail ==
    /\ op = "heatmap" /\ pc = "doc_embed"
    /\ \E loaded \in {text_model, TRUE} :
        /\ text_model' = loaded
        /\ built' = [built EXCEPT !.text_model = @ + Constructions(text_model, loaded)]
    /\ failed' = failed \cup {"doc"}
    /\ pc' = "map_embed"
    /\ UNCHANGED <<db_client, feature_extractor, op, query, limit, threshold, filters,
                   q_filter, text_vec, pe_vec, hits_doc, hits_map,
                   doc_results, map_results, final_results, points, issued, response>>

\* get_heatmap_data: the document query answers; every located hit becomes a
\* point with the hit's score
HeatDocQueryOk ==
    /\ op = "heatmap" /\ pc = "doc_query"
    /\ StoreAccepts(limit \div 2)
    /\ \E h \in HeatAnswers({s \in HeatGrid : s >= HEAT_DOC_THRESHOLD}, limit \div 2) :
        /\ hits_doc' = h
        /\ points' = points \o HeatPoints(h, "doc", 10)
    /\ issued' = issued \cup {Query("doc", "text_vector", text_vec, <<>>, limit \div 2)}
    /\ pc' = "map_embed"
    /\ UNCHANGED <<Globals, op, query, limit, threshold, filters,
                   q_filter, text_vec, pe_vec, hits_map, doc_results, map_results,
                   final_results, failed, response>>

\* get_heatmap_data: the document query raises; except: pass
HeatDocQueryFail ==
    /\ op = "heatmap" /\ pc = "doc_query"
    /\ issued' = issued \cup {Query("doc", "text_vector", text_vec, <<>>, limit \div 2)}
    /\ failed' = failed \cup {"doc"}
    /\ pc' = "map_embed"
    /\ UNCHANGED <<Globals, op, query, limit, threshold, filters,
                   q_filter, text_vec, pe_vec, hits_doc, hits_map, doc_results,
                   map_results, final_results, points, response>>

\* get_heatmap_data: get_pe_model() and extract_text_features(query) return
HeatMapEmbedOk ==
    /\ op = "heatmap" /\ pc = "map_embed"
    /\ feature_extractor' = TRUE
    /\ built' = [built EXCEPT !.feature_extractor = @ + Constructions(feature_extractor, TRUE)]
    /\ pe_vec' = Vector("pe_text", query)
    /\ pc' = "map_query"
    /\ UNCHANGED <<db_client, text_model, op, query, limit, threshold, filters,
                   q_filter, text_vec, Locals>>

\* get_heatmap_data: building the extractor or embedding raises; except: pass
HeatMapEmbedFail ==
    /\ op = "heatmap" /\ pc = "map_embed"
    /\ \E loaded \in {feature_extractor, TRUE} :
        /\ feature_extractor' = loaded
        /\ built' = [built EXCEPT !.feature_extractor = @ + Constructions(feature_extractor, loaded)]
    /\ failed' = failed \cup {"map"}
    /\ pc' = "respond"
    /\ UNCHANGED <<db_client, text_model, op, query, limit, threshold, filters,
                   q_filter, text_vec, pe_vec, hits_doc, hits_map,
                   doc_results, map_results, final_results, points, issued, response>>

\* get_heatmap_data: the map query answers; every located hit becomes a point
\* with the hit's score * 1.1
HeatMapQueryOk ==
    /\ op = "heatmap" /\ pc = "map_query"
    /\ StoreAccepts(limit \div 2)
    /\ \E h \in HeatAnswers({s \in HeatGrid : s >= HEAT_MAP_THRESHOLD}, limit \div 2) :
        /\ hits_map' = h
        /\ points' = points \o HeatPoints(h, "map", 11)
    /\ issued' = issued \cup {Query("map", "default", pe_vec, <<>>, limit \div 2)}
    /\ pc' = "respond"
    /\ UNCHANGED <<Globals, op, query, limit, threshold, filters,
                   q_filter, text_vec, pe_vec, hits_doc, doc_results, map_results,
                   final_results, failed, response>>

\* get_heatmap_data: the map query raises; except: pass
HeatMapQueryFail ==
    /\ op = "heatmap" /\ pc = "map_query"
    /\ issued' = issued \cup {Query("map", "default", pe_vec, <<>>, limit \div 2)}
    /\ failed' = failed \cup {"map"}
    /\ pc' = "respond"
    /\ UNCHANGED <<Globals, op, query, limit, threshold, filters,
                   q_filter, text_vec, pe_vec, hits_doc, hits_map, doc_results,
                   map_results, final_results, points, response>>

\* the endpoint wraps the points into the success envelope
HeatRespond ==
    /\ op = "heatmap" /\ pc = "respond"
    /\ response' = HeatmapResponse(points)
    /\ pc' = "done"
    /\ UNCHANGED <<Globals, op, query, limit, threshold, filters,
                   q_filter, text_vec, pe_vec, hits_doc, hits_map, doc_results,
                   map_results, final_results, points, issued, failed>>

Heatmap ==
    \/ StartHeatmap
    \/ HeatGetDbOk
    \/ HeatGetDbFail
    \/ HeatDocEmbedOk
    \/ HeatDocEmbedFail
    \/ HeatDocQueryOk
    \/ HeatDocQueryFail
    \/ HeatMapEmbedOk
    \/ HeatMapEmbedFail
    \/ HeatMapQueryOk
    \/ HeatMapQueryFail
    \/ HeatRespond

\* ---------------------------------- GET /heatmap/binary: get_heatmap_binary
\* the endpoint takes the caller's limit as it is and enters its try block
StartBinary ==
    /\ pc = "idle"
    /\ \E l \in HeatmapLimits : limit' = l
    /\ threshold' = 0
    /\ op' = "binary"
    /\ query' = "absent"
    /\ filters' = <<>>
    /\ pc' = "call"
    /\ FreshLocals
    /\ UNCHANGED Globals

\* get_heatmap_binary: search_service.get_heatmap_points is looked up; the
\* SearchService class defines no such method, so AttributeError is raised,
\* caught by except Exception and answered 500
BinaryNoSuchMethod ==
    /\ op = "binary" /\ pc = "call"
    /\ failed' = failed \cup {"attribute"}
    /\ response' = HttpError(500)
    /\ pc' = "done"
    /\ UNCHANGED <<Globals, op, query, limit, threshold, filters,
                   q_filter, text_vec, pe_vec, hits_doc, hits_map, doc_results,
                   map_results, final_results, points, issued>>

HeatmapBinary ==
    \/ StartBinary
    \/ BinaryNoSuchMethod

Next ==
    \/ InitDbOk
    \/ InitPeOk
    \/ InitTextOk
    \/ InitFail
    \/ SearchText
    \/ SearchImage
    \/ Heatmap
    \/ HeatmapBinary
    \/ Finish

Spec == Init /\ [][Next]_vars

\* the interpreter keeps running a handler that can take a step
FairSpec == Spec /\ WF_vars(Next)

\* ---------------------------------------------------------------------------
\* The filter translator on its own: every SearchFilters value, translated once
\* ---------------------------------------------------------------------------

\* the longest geo_bbox list tried
MaxBBoxLen == 5

\* coordinates of geo_bbox lists: [12, 45, 13, 46] is among the lists
BBoxCoords == {12, 13, 45, 46}

\* the lists over S of at most n elements
SeqsUpTo(S, n) == UNION {[1 .. k -> S] : k \in 0 .. n}

\* SearchFilters: four optional fields, each absent (None) or given
SearchFilters ==
    [year_start : {None, Some(0), Some(1600)},
     year_end   : {None, Some(0), Some(1800)},
     map_source : {None, Some(""), Some("atlas")},
     geo_bbox   : {None} \cup {Some(b) : b \in SeqsUpTo(BBoxCoords, MaxBBoxLen)}]

\* filters: Optional[SearchFilters] = None
AllFilters == {None} \cup {Some(f) : f \in SearchFilters}

\* a call of _build_qdrant_filters about to be made with some argument
FilterInit ==
    /\ db_client = FALSE
    /\ feature_extractor = FALSE
    /\ text_model = FALSE
    /\ built = NoneBuilt
    /\ op = "none"
    /\ query = "absent"
    /\ pc = "translate"
    /\ limit = 0
    /\ threshold = 0
    /\ filters \in AllFilters
    /\ q_filter = None
    /\ text_vec = NoVector
    /\ pe_vec = NoVector
    /\ hits_doc = <<>>
    /\ hits_map = <<>>
    /\ doc_results = <<>>
    /\ map_results = <<>>
    /\ final_results = <<>>
    /\ points = <<>>
    /\ issued = {}
    /\ failed = {}
    /\ response = NoResponse

\* q_filter = self._build_qdrant_filters(filters)
Translate ==
    /\ pc = "translate"
    /\ q_filter' = build_qdrant_filters(filters)
    /\ pc' = "translated"
    /\ UNCHANGED <<Globals, op, query, limit, threshold, filters, text_vec, pe_vec, Locals>>

FilterNext == Translate

FilterSpec == FilterInit /\ [][FilterNext]_vars

\* ---------------------------------------------------------------------------
\* The packing loop of get_heatmap_binary on its own: every list of points,
\* packed once
\* ---------------------------------------------------------------------------

\* the longest list of points packed
MaxPoints == 2

RECURSIVE Pow2(_)
Pow2(k) == IF k = 0 THEN 1 ELSE 2 * Pow2(k - 1)

RECURSIVE BitLength(_)
\* the number of binary digits of a natural number
BitLength(m) == IF m = 0 THEN 0 ELSE 1 + BitLength(m \div 2)

RECURSIVE Canon(_, _, _)
\* a Python float, written (-1)^s * m * 2^e with m odd; zero is m = 0, e = 0
Canon(s, m, e) ==
    IF m = 0 THEN [s |-> s, m |-> 0, e |-> 0]
    ELSE IF m % 2 = 0 THEN Canon(s, m \div 2, e + 1)
    ELSE [s |-> s, m |-> m, e |-> e]

\* struct format 'f': the float is converted to IEEE-754 binary32, that is, its
\* significand is rounded to 24 binary digits, ties to even
F32(v) ==
    LET L == BitLength(v.m)
    IN  IF L <= 24 THEN v
        ELSE LET sh   == L - 24
                 q    == v.m \div Pow2(sh)
                 rem  == v.m % Pow2(sh)
                 half == Pow2(sh - 1)
                 up   == rem > half \/ (rem = half /\ q % 2 = 1)
             IN  Canon(v.s, IF up THEN q + 1 ELSE q, v.e + sh)

\* the four bytes of the binary32 pattern of a float, least significant first:
\* sign bit, 8 bits of biased exponent, 23 bits of fraction
PatternBytes(v) ==
    IF v.m = 0 THEN <<0, 0, 0, 128 * v.s>>
    ELSE LET w        == F32(v)
             L        == BitLength(w.m)
             biased   == w.e + L - 1 + 127
             fraction == w.m * Pow2(24 - L) - Pow2(23)
         IN  <<fraction % 256,
               (fraction \div 256) % 256,
               (biased % 2) * 128 + fraction \div 65536,
               128 * w.s + biased \div 2>>

\* a sequence back to front
Reverse(b) == [i \in 1 .. Len(b) |-> b[Len(b) + 1 - i]]

\* the byte orders a host can have: struct.pack without a prefix character uses
\* the host's own
ByteOrders == {"little", "big"}

\* one float packed with format 'f' in native order
pack_f(v, order) == IF order = "little" THEN PatternBytes(v) ELSE Reverse(PatternBytes(v))

\* the three floats of a point packed longitude first
pack_fff_swapped(lat, lng, score, order) ==
    pack_f(lng, order) \o pack_f(lat, order) \o pack_f(score, order)

\* struct.pack('fff', p['lat'], p['lng'], p['score']): three floats one after
\* the other; native alignment puts no padding between 4-byte items
pack_fff(lat, lng, score, order) ==
    pack_f(lat, order) \o pack_f(lng, order) \o pack_f(score, order)

RECURSIVE EncodePoints(_, _)
\* byte_array = bytearray(); for p in points: byte_array.extend(struct.pack(...))
EncodePoints(pts, order) ==
    IF pts = <<>> THEN <<>>
    ELSE pack_fff(Head(pts).lat, Head(pts).lng, Head(pts).score, order)
            \o EncodePoints(Tail(pts), order)

\* Response(content=bytes(byte_array), media_type="application/octet-stream")
OctetStream(content) ==
    [code |-> 200, media_type |-> "application/octet-stream", content |-> content]

\* latitudes tried: 45.5, and 32 + 2^-20, which has 26 significant binary digits
Lats == {Canon(0, 91, -1), Canon(0, 33554433, -20)}

\* longitudes tried: 12.25, -0.5 and 0.0
Lngs == {Canon(0, 49, -2), Canon(1, 1, -1), Canon(0, 0, 0)}

\* scores tried: 1.0, 0.75, and 1 + 2^-24, which has 25 significant binary digits
Scores == {Canon(0, 1, 0), Canon(0, 3, -2), Canon(0, 16777217, -24)}

\* the dicts get_heatmap_binary reads 'lat', 'lng' and 'score' from
PointDicts == [lat : Lats, lng : Lngs, score : Scores]

\* the lists of points the loop may be given
PointLists == UNION {[1 .. k -> PointDicts] : k \in 0 .. MaxPoints}

\* the loop of get_heatmap_binary about to run over some list of points
EncodeInit ==
    /\ db_client = FALSE
    /\ feature_extractor = FALSE
    /\ text_model = FALSE
    /\ built = NoneBuilt
    /\ op = "binary"
    /\ query = "absent"
    /\ pc = "pack"
    /\ limit = 0
    /\ threshold = 0
    /\ filters = None
    /\ q_filter = None
    /\ text_vec = NoVector
    /\ pe_vec = NoVector
    /\ hits_doc = <<>>
    /\ hits_map = <<>>
    /\ doc_results = <<>>
    /\ map_results = <<>>
    /\ final_results = <<>>
    /\ points \in PointLists
    /\ issued = {}
    /\ failed = {}
    /\ response = NoResponse

\* get_heatmap_binary: every point is packed and the bytes are returned
BinaryEncode ==
    /\ op = "binary" /\ pc = "pack"
    /\ \E order \in ByteOrders : response' = OctetStream(EncodePoints(points, order))
    /\ pc' = "done"
    /\ UNCHANGED <<Globals, op, query, limit, threshold, filters,
                   q_filter, text_vec, pe_vec, hits_doc, hits_map, doc_results,
                   map_results, final_results, points, issued, failed>>

EncodeNext == BinaryEncode

EncodeSpec == EncodeInit /\ [][EncodeNext]_vars

\* ---------------------------------------------------------------------------
\* _hits_to_results on its own: every answer of the store, converted once
\* ---------------------------------------------------------------------------

\* the payloads a stored point can have: with pixel_coords or without
PayloadHit(i, score) ==
    {[id |-> i, score |-> score],
     [id |-> i, score |-> score, pixel_coords |-> <<3, 4>>]}

\* the answers query_points can give with with_payload=True
PayloadAnswers ==
    UNION {{h \in [1 .. Len(a) -> UNION {PayloadHit(i, a[i]) : i \in 1 .. Len(a)}] :
                \A i \in 1 .. Len(a) : h[i] \in PayloadHit(i, a[i])} :
           a \in StoreAnswers({60, 90}, MaxHits)}

\* a call of _hits_to_results about to be made for each collection's answer
ItemInit ==
    /\ db_client = FALSE
    /\ feature_extractor = FALSE
    /\ text_model = FALSE
    /\ built = NoneBuilt
    /\ op = "none"
    /\ query = "absent"
    /\ pc = "convert"
    /\ limit = 0
    /\ threshold = 0
    /\ filters = None
    /\ q_filter = None
    /\ text_vec = NoVector
    /\ pe_vec = NoVector
    /\ hits_doc \in PayloadAnswers
    /\ hits_map \in PayloadAnswers
    /\ doc_results = <<>>
    /\ map_results = <<>>
    /\ final_results = <<>>
    /\ points = <<>>
    /\ issued = {}
    /\ failed = {}
    /\ response = NoResponse

\* raw_docs = self._hits_to_results(hits_doc, "document")
ConvertDoc ==
    /\ pc = "convert"
    /\ doc_results' = hits_to_results(hits_doc, "document")
    /\ pc' = "converted"
    /\ UNCHANGED <<Globals, op, query, limit, threshold, filters,
                   q_filter, text_vec, pe_vec, hits_doc, hits_map, map_results,
                   final_results, points, issued, failed, response>>

\* raw_maps = self._hits_to_results(hits_map, "map_tile", "Map Fragment")
ConvertMap ==
    /\ pc = "convert"
    /\ map_results' = hits_to_results(hits_map, "map_tile")
    /\ pc' = "converted"
    /\ UNCHANGED <<Globals, op, query, limit, threshold, filters,
                   q_filter, text_vec, pe_vec, hits_doc, hits_map, doc_results,
                   final_results, points, issued, failed, response>>

ItemNext ==
    \/ ConvertDoc
    \/ ConvertMap

ItemSpec == ItemInit /\ [][ItemNext]_vars

\* ================================================================ properties
\* a search handler (search_text or search_image) is in flight
Searching == op \in {"text", "image"}

\* the search in flight has answered with its result list
Answered == Searching /\ response.code = 200

\* both sources of the search in flight have been queried and gated
Gated == Searching /\ pc \in {"normalize", "fuse", "respond"}

\* the normalization step of the search in flight has run
Normalized == Searching /\ pc \in {"fuse", "respond"}

\* the absolute floors of the search in flight
DocFloor == IF op = "text" THEN DOC_MIN_SCORE ELSE DOC_IMG_MIN_SCORE
MapFloor == IF op = "text" THEN MAP_MIN_SCORE ELSE MAP_IMG_MIN_SCORE

\* the raw score, in hundredths, of the hit an item was made from
RawOf(item) ==
    IF item.type = "document" THEN hits_doc[item.id].score ELSE hits_map[item.id].score

\* the post-floor list of the source an item belongs to
SourceList(type) == IF type = "document" THEN doc_results ELSE map_results

\* the sum of the raw scores of a list of items
RawSum(results) == SumOver([i \in 1 .. Len(results) |-> RawOf(results[i])], Len(results))

\* the ids of the items of a list
IdsOf(results) == {results[i].id : i \in 1 .. Len(results)}

\* fewer than 2 items, or all scores identical
Degenerate(results) ==
    \/ Len(results) < 2
    \/ \A i, j \in 1 .. Len(results) : results[i].score = results[j].score

\* the scores of the list have mean 0 and population standard deviation 1:
\* they share one denominator d * sqrt(r), their numerators sum to 0 and the
\* squares of the numerators sum to N * d * d * r
UnitMoments(results) ==
    LET N == Len(results)
        d == results[1].score.d
        r == results[1].score.r
    IN  /\ \A i \in 1 .. N : results[i].score.d = d /\ results[i].score.r = r
        /\ SumOver([i \in 1 .. N |-> results[i].score.n], N) = 0
        /\ SumOver([i \in 1 .. N |-> results[i].score.n * results[i].score.n], N)
             = N * d * d * r

\* what one source alone yields: its hits gated, normalized, filtered, sorted
\* and truncated
SoloResult(hits, result_type, floor) ==
    FilterSortTruncate(
        normalize_scores(AbsoluteFilter(hits_to_results(hits, result_type), floor)),
        limit)

\* C1: the list search_text and search_image return is sorted non-increasing
\* by score: no item has a score greater than the score of the item before it.
C1_SortedNonIncreasing ==
    Answered =>
        \A i \in 1 .. (Len(response.data) - 1) :
            ~ScoreGt(response.data[i + 1].score, response.data[i].score)

\* C1 witness: a text search returned a map item ahead of a document item with
\* a strictly smaller score, although documents are concatenated first.
C1_Witness ==
    /\ Answered /\ op = "text"
    /\ Len(response.data) >= 2
    /\ response.data[1].type = "map_tile"
    /\ response.data[2].type = "document"
    /\ ScoreGt(response.data[1].score, response.data[2].score)

\* C2 (as claimed): for every limit the API accepts, negative ones included,
\* the number of items returned is at most limit.
C2_LengthWithinLimit ==
    Answered => Len(response.data) <= limit

\* C3: every returned item has a score strictly greater than the relative
\* threshold 0, i.e. a positive numerator.
C3_AboveRelativeThreshold ==
    Answered =>
        \A i \in 1 .. Len(response.data) :
            response.data[i].score.n > Z_SCORE_THRESHOLD

\* C3 witness: a search answered with items while an item whose normalized
\* score is exactly 0 was in the merged list, and that item is not returned.
C3_Witness ==
    /\ Answered
    /\ Len(response.data) >= 1
    /\ \E i \in 1 .. Len(map_results) : map_results[i].score.n = 0

\* C4 (as claimed): every returned item's raw score is strictly greater than
\* the mean raw score of its own source's post-floor set, so a source with a
\* single item or with identical scores contributes nothing.
C4_AboveSourceMean ==
    Answered =>
        \A i \in 1 .. Len(response.data) :
            LET item == response.data[i]
                own == SourceList(item.type)
            IN  Len(own) * RawOf(item) > RawSum(own)

\* C5: the normalization step leaves every list with fewer than 2 items or with
\* identical scores exactly as it was: same items, same order, same scores.
C5_NormalizeNoOpOnDegenerate ==
    [][(Searching /\ pc = "normalize") =>
          /\ Degenerate(doc_results) => doc_results' = doc_results
          /\ Degenerate(map_results) => map_results' = map_results]_vars

\* C5 witness: the normalization step has run on a document list of at least 2
\* items with identical scores and on a map list of a single item.
C5_Witness ==
    /\ Normalized
    /\ Len(doc_results) >= 2
    /\ \A i \in 1 .. Len(doc_results) :
          doc_results[i].score = RawScore(RawOf(doc_results[1]))
    /\ Len(map_results) = 1

\* C6 (as claimed): every list of at least 2 items has mean 0 and population
\* standard deviation 1 after normalization.
C6_UnitMomentsFromTwoItems ==
    Normalized =>
        /\ Len(doc_results) >= 2 => UnitMoments(doc_results)
        /\ Len(map_results) >= 2 => UnitMoments(map_results)

\* the raw scores of the list are not all the same
RawScoresDiffer(results) ==
    \E i, j \in 1 .. Len(results) : RawOf(results[i]) # RawOf(results[j])

\* C6 (amended): every list of at least 2 items whose raw scores are not all
\* identical has mean 0 and population standard deviation 1 after normalization.
C6_UnitMomentsWhenScoresDiffer ==
    Normalized =>
        /\ (Len(doc_results) >= 2 /\ RawScoresDiffer(doc_results))
              => UnitMoments(doc_results)
        /\ (Len(map_results) >= 2 /\ RawScoresDiffer(map_results))
              => UnitMoments(map_results)

\* C6 witness: both lists hold at least 2 items with differing raw scores and
\* have been normalized.
C6_Witness ==
    /\ Normalized
    /\ Len(doc_results) >= 3 /\ RawScoresDiffer(doc_results)
    /\ Len(map_results) >= 2 /\ RawScoresDiffer(map_results)

\* C7: normalization is per source: after the normalization step the document
\* items are exactly the document hits gated and normalized among themselves,
\* a function of the document hits alone, whatever the map source returned;
\* and the same for the map items.
C7_PerSourceNormalization ==
    Normalized =>
        /\ doc_results =
             normalize_scores(
                 AbsoluteFilter(hits_to_results(hits_doc, "document"), DocFloor))
        /\ map_results =
             normalize_scores(
                 AbsoluteFilter(hits_to_results(hits_map, "map_tile"), MapFloor))

\* C7 witness: both lists were normalized, each with its own standard deviation.
C7_Witness ==
    /\ Normalized /\ op = "text"
    /\ Len(doc_results) >= 2 /\ RawScoresDiffer(doc_results)
    /\ Len(map_results) >= 2 /\ RawScoresDiffer(map_results)
    /\ doc_results[1].score.r # map_results[1].score.r

\* C8 (as claimed): the floor is a minimum: a hit is kept for normalization
\* exactly when its raw score is not below the floor of its source, a score
\* equal to the floor included.
C8_FloorIsMinimum ==
    Gated =>
        /\ \A i \in 1 .. Len(hits_doc) :
              (hits_doc[i].score >= DocFloor) <=> (hits_doc[i].id \in IdsOf(doc_results))
        /\ \A i \in 1 .. Len(hits_map) :
              (hits_map[i].score >= MapFloor) <=> (hits_map[i].id \in IdsOf(map_results))

\* both source blocks of the handler in flight are over
SourcesOver ==
    \/ Gated
    \/ op = "heatmap" /\ pc = "respond"
    \/ op # "none" /\ pc = "done" /\ response.code = 200

\* the points of get_heatmap_data that came from one source
PointsOf(source) == SelectSeq(points, LAMBDA p : p.source = source)

\* C9: an embedding or store failure in one source never aborts the sibling:
\* the request still answers 200, the failed source contributes nothing, the
\* other source's query is issued, and the answer is what the other source
\* alone yields.
C9_SourceFailureIsolated ==
    /\ (pc = "done" /\ failed # {} /\ failed \subseteq {"doc", "map"})
          => response.code = 200
    /\ SourcesOver =>
          /\ "doc" \in failed =>
                /\ hits_doc = <<>> /\ doc_results = <<>> /\ PointsOf("doc") = <<>>
                /\ "map" \notin failed => \E q \in issued : q.coll = "map"
          /\ "map" \in failed =>
                /\ hits_map = <<>> /\ map_results = <<>> /\ PointsOf("map") = <<>>
                /\ "doc" \notin failed => \E q \in issued : q.coll = "doc"
    /\ (pc = "done" /\ response.code = 200 /\ "doc" \in failed) =>
          response = IF Searching
                     THEN SearchResponse(SoloResult(hits_map, "map_tile", MapFloor))
                     ELSE HeatmapResponse(HeatPoints(hits_map, "map", 11))
    /\ (pc = "done" /\ response.code = 200 /\ "map" \in failed) =>
          response = IF Searching
                     THEN SearchResponse(SoloResult(hits_doc, "document", DocFloor))
                     ELSE HeatmapResponse(HeatPoints(hits_doc, "doc", 10))

\* C9 witness: the document source of a text search failed and the answer
\* carries the map source's items.
C9_Witness ==
    /\ op = "text" /\ pc = "done"
    /\ failed = {"doc"}
    /\ response.code = 200
    /\ response.count >= 2

\* C10 (as claimed): when every source of POST /search/text fails, the store
\* client that cannot be obtained included, the answer is the success envelope
\* with count 0 and no data, never a 5xx.
C10_TotalFailureIsEmptySuccess ==
    (op = "text" /\ pc = "done" /\ ("client" \in failed \/ failed = {"doc", "map"}))
        => response = SearchResponse(<<>>)
\* the items the map source alone contributes to the answer of the search
MapOnlyResult == SoloResult(hits_map, "map_tile", MapFloor)

\* C11 (as claimed): when the document source of search_text hangs, the search
\* still eventually returns a non-error answer whose count is the number of
\* surviving map items.
C11_HungDocumentSourceStillAnswers ==
    [](pc = "doc_hung" =>
         <>(pc = "done" /\ response.code = 200
            /\ response.count = Len(MapOnlyResult)))
\* the work of the document source is in progress
DocInFlight == pc \in {"doc_embed", "doc_query", "doc_hung"}

\* the work of the map source is in progress
MapInFlight == pc \in {"map_embed", "map_query"}

\* C12 (as claimed): the two source executors of a search run concurrently:
\* whenever the source the handler launches second is at work, the source it
\* launched first is still at work.
C12_SourcesRunConcurrently ==
    /\ (op = "text" /\ MapInFlight) => DocInFlight
    /\ (op = "image" /\ pc = "doc_query") => MapInFlight

\* the store queries of the request in flight that went to one collection
IssuedTo(coll) == {q \in issued : q.coll = coll}

\* C13: in search_text and get_heatmap_data a source's store query is issued
\* only once that source's embedding has returned, and it carries the vector the
\* embedding returned; a source whose embedding failed has no store query.
C13_EmbedBeforeQuery ==
    op \in {"text", "heatmap"} =>
        /\ \A q \in IssuedTo("doc") :
              /\ text_vec = Vector("text_model", query)
              /\ q.query = text_vec
        /\ \A q \in IssuedTo("map") :
              /\ pe_vec = Vector("pe_text", query)
              /\ q.query = pe_vec
        /\ text_vec = NoVector => IssuedTo("doc") = {}
        /\ pe_vec = NoVector => IssuedTo("map") = {}

\* C13 witness: a text search whose document embedding failed issued no
\* document query and issued its map query with the map embedding's vector.
C13_Witness ==
    /\ op = "text" /\ pc = "done"
    /\ "doc" \in failed /\ text_vec = NoVector
    /\ IssuedTo("doc") = {}
    /\ \E q \in IssuedTo("map") : q.query = Vector("pe_text", "words")

\* the source whose items come first in all_results
FirstType == IF op = "text" THEN "document" ELSE "map_tile"

\* a comes before b in the concatenation of the per-source lists
BeforeInConcat(a, b) ==
    \/ a.type = FirstType /\ b.type # FirstType
    \/ a.type = b.type /\ a.id < b.id

\* the two scores are the same number
SameScore(a, b) == ~ScoreGt(a, b) /\ ~ScoreGt(b, a)

\* C14: returned items with exactly equal scores appear in the order of the
\* concatenation: the first source's items before the second's, store order
\* within a source.
C14_TiesKeepConcatenationOrder ==
    Answered =>
        \A i, j \in 1 .. Len(response.data) :
            (i < j /\ SameScore(response.data[i].score, response.data[j].score))
                => BeforeInConcat(response.data[i], response.data[j])

\* C14 witness: a search returned two items of different sources with exactly
\* equal scores, the first source's item first.
C14_Witness ==
    /\ Answered
    /\ Len(response.data) >= 2
    /\ SameScore(response.data[1].score, response.data[2].score)
    /\ response.data[1].type # response.data[2].type
\* the translator has returned
Translated == pc = "translated"

\* the conditions of the translated filter
Conds == IF q_filter = None THEN <<>> ELSE q_filter[1].must

\* every field of the SearchFilters object is unset
AllUnset(f) ==
    /\ f.year_start = None /\ f.year_end = None
    /\ f.map_source = None /\ f.geo_bbox = None

\* C15: the filter translator returns None when the filters argument is absent
\* and when it is a SearchFilters object whose four fields are all unset.
C15_NoFilterWhenNothingSet ==
    Translated =>
        ((IF filters = None THEN TRUE ELSE AllUnset(filters[1]))
            => q_filter = None)

\* C15 witness: a SearchFilters object with every field unset was translated
\* to None.
C15_Witness ==
    /\ Translated
    /\ filters # None
    /\ AllUnset(filters[1])
    /\ q_filter = None

\* the geo_bbox of the translated filters is a list of exactly 4 elements
FourElementBBox ==
    /\ filters # None
    /\ filters[1].geo_bbox # None
    /\ Len(filters[1].geo_bbox[1]) = 4

\* the positions of the bounding-box conditions
BoxConds == {i \in DOMAIN Conds : Conds[i].key = "location"}

\* C16: a 4-element geo_bbox [minLon, minLat, maxLon, maxLat] is translated to
\* a geo condition with top-left (lon = minLon, lat = maxLat) and bottom-right
\* (lon = maxLon, lat = minLat).
C16_BBoxCorners ==
    (Translated /\ FourElementBBox) =>
        LET bbox == filters[1].geo_bbox[1]
        IN  /\ BoxConds # {}
            /\ \A i \in BoxConds :
                  /\ Conds[i].top_left = [lon |-> bbox[1], lat |-> bbox[4]]
                  /\ Conds[i].bottom_right = [lon |-> bbox[3], lat |-> bbox[2]]

\* C16 witness: [12, 45, 13, 46] was translated to top-left (12, 46) and
\* bottom-right (13, 45).
C16_Witness ==
    /\ Translated
    /\ FourElementBBox
    /\ filters[1].geo_bbox[1] = <<12, 45, 13, 46>>
    /\ \E i \in BoxConds :
          /\ Conds[i].top_left = [lon |-> 12, lat |-> 46]
          /\ Conds[i].bottom_right = [lon |-> 13, lat |-> 45]

\* the positions of the year >= conditions
StartConds == {i \in DOMAIN Conds : Conds[i].key = "year" /\ "gte" \in DOMAIN Conds[i]}

\* the positions of the year <= conditions
EndConds == {i \in DOMAIN Conds : Conds[i].key = "year" /\ "lte" \in DOMAIN Conds[i]}

\* the positions of the source-tag conditions
SourceConds == {i \in DOMAIN Conds : Conds[i].key = "source_image"}

\* C17 (as claimed): for every SearchFilters value the translated predicate has
\* exactly one condition per supplied field and nothing else: year >= start iff
\* year_start is supplied (0 included), year <= end iff year_end is supplied,
\* a source match iff map_source is supplied, a bounding box iff geo_bbox has
\* exactly 4 elements.
C17_OneConditionPerSuppliedField ==
    (Translated /\ filters # None) =>
        LET f == filters[1]
        IN  /\ Cardinality(StartConds) = IF f.year_start # None THEN 1 ELSE 0
            /\ \A i \in StartConds : Conds[i].gte = f.year_start[1]
            /\ Cardinality(EndConds) = IF f.year_end # None THEN 1 ELSE 0
            /\ \A i \in EndConds : Conds[i].lte = f.year_end[1]
            /\ Cardinality(SourceConds) = IF f.map_source # None THEN 1 ELSE 0
            /\ \A i \in SourceConds : Conds[i].match = f.map_source[1]
            /\ Cardinality(BoxConds) = IF FourElementBBox THEN 1 ELSE 0
            /\ StartConds \cup EndConds \cup SourceConds \cup BoxConds = DOMAIN Conds

\* get_heatmap_data was called with an empty or absent query
DensityMode == op = "heatmap" /\ query \in {"absent", "empty"}

\* C18 (as claimed): with an empty or absent query and a limit that is not
\* negative, every returned heatmap point has score exactly 1.0 and at most
\* limit points are returned.
C18_DensityPointsScoreOne ==
    (DensityMode /\ response.code = 200 /\ limit >= 0) =>
        /\ \A i \in 1 .. Len(response.data) :
              response.data[i].score.n = response.data[i].score.d
        /\ response.count <= limit

\* C19 (as claimed): with an empty or absent query the points come from
\* scanning the collections: no embedding is computed and no vector query is
\* issued.
C19_DensityScansWithoutEmbedding ==
    DensityMode =>
        /\ text_vec = NoVector
        /\ pe_vec = NoVector
        /\ \A q \in issued : q.call = "scroll"

\* get_heatmap_data was called with a query text
QueryMode == op = "heatmap" /\ query = "words"

RequestedPoints ==
    LET lims == [q \in issued |-> q.limit]
    IN  IF issued = {} THEN 0
        ELSE LET RECURSIVE Total(_)
                 Total(qs) == IF qs = {} THEN 0
                              ELSE LET q == CHOOSE x \in qs : TRUE
                                   IN  lims[q] + Total(qs \ {q})
             IN  Total(issued)

\* C21 (as claimed): on both heatmap paths the limit handed to the service is
\* capped at 5000, so that neither the points requested from the store nor the
\* points returned exceed 5000, whatever the caller passes.
C21_HeatmapLimitCapped ==
    op \in {"heatmap", "binary"} =>
        /\ limit <= HEATMAP_CAP
        /\ RequestedPoints <= HEATMAP_CAP
        /\ response.code = 200 => response.count <= HEATMAP_CAP

\* all three shared resources are up
Healthy == db_client /\ feature_extractor /\ text_model

\* C22 (as claimed): with a healthy store and healthy models GET
\* /heatmap/binary answers 200 with an application/octet-stream body and never
\* with an error.
C22_BinaryHeatmapAnswers ==
    (op = "binary" /\ pc = "done" /\ Healthy) =>
        /\ response.code = 200
        /\ response.media_type = "application/octet-stream"
\* the packing loop has returned its bytes
Encoded == op = "binary" /\ pc = "done" /\ response.code = 200

\* the float four bytes stand for, read as a binary32 pattern in a byte order
Unpack32(b, order) ==
    LET w        == IF order = "little" THEN b ELSE Reverse(b)
        sign     == w[4] \div 128
        biased   == (w[4] % 128) * 2 + w[3] \div 128
        fraction == (w[3] % 128) * 65536 + w[2] * 256 + w[1]
    IN  IF biased = 0 /\ fraction = 0
        THEN Canon(sign, 0, 0)
        ELSE Canon(sign, Pow2(23) + fraction, biased - 127 - 23)

\* the points a byte sequence decodes to, 12 bytes a point: lat, lng, score
DecodePoints(b, order) ==
    [i \in 1 .. (Len(b) \div 12) |->
        [lat   |-> Unpack32(SubSeq(b, 12 * i - 11, 12 * i - 8), order),
         lng   |-> Unpack32(SubSeq(b, 12 * i - 7, 12 * i - 4), order),
         score |-> Unpack32(SubSeq(b, 12 * i - 3, 12 * i), order)]]

\* the points with every field rounded to binary32
Rounded(pts) ==
    [i \in 1 .. Len(pts) |->
        [lat |-> F32(pts[i].lat), lng |-> F32(pts[i].lng), score |-> F32(pts[i].score)]]

C24_PixelCoordsNullOnDocuments ==
    \A i \in 1 .. Len(doc_results \o map_results) :
        LET item == (doc_results \o map_results)[i]
        IN  /\ item.type \in {"document", "map_tile"}
            /\ item.type = "document" => item.pixel_coords = None
\* C25 (as claimed): POST /search/image answers 400 exactly when the uploaded
\* bytes cannot be parsed as an image; no other failure is answered 400.
C25_BadRequestOnlyForUnparseableImage ==
    (op = "image" /\ pc = "done") =>
        (response.code = 400 <=> "image" \in failed)
\* the number of instances a resource has when it is up, and when it is not
InstancesOf(up) == IF up THEN 1 ELSE 0

InitPcs == {"init_db", "init_pe", "init_text"}

\* C30: startup never fails on resource initialisation and a failure is not
\* cached: init_resources builds client, extractor and text model in that order
\* and stops at the first failure, startup then goes on to serve requests, a
\* request handler's getter builds a resource that is still missing, and a
\* resource that is up is never built again.
C30_StartupSurvivesAndRetries ==
    [][/\ pc = "init_pe" => db_client /\ ~feature_extractor /\ ~text_model
       /\ pc = "init_text" => db_client /\ feature_extractor /\ ~text_model
       /\ pc = "init_db" => ~db_client /\ ~feature_extractor /\ ~text_model
       /\ pc \in InitPcs => pc' \in InitPcs \cup {"idle"}
       /\ (pc \in InitPcs /\ pc' = "idle") =>
             /\ db_client' = (pc # "init_db")
             /\ feature_extractor' = (pc = "init_text")
       /\ db_client => db_client' /\ built'.db_client = built.db_client
       /\ feature_extractor =>
             feature_extractor' /\ built'.feature_extractor = built.feature_extractor
       /\ text_model => text_model' /\ built'.text_model = built.text_model
       /\ (pc = "get_db" /\ ~db_client) => (db_client' \/ response'.code = 500)
      ]_vars

\* C30 witness: startup stopped before the extractor was built; a later heatmap
\* request built the text model, failed to build the extractor, and answered.
C30_Witness ==
    /\ op = "heatmap" /\ pc = "done" /\ response.code = 200
    /\ db_client /\ text_model /\ ~feature_extractor
    /\ "map" \in failed
\* the hits of a source that are above its absolute floor
Survivors(hits, floor) == {i \in 1 .. Len(hits) : hits[i].score > floor}

C28_SourceRankingPreserved ==
    Answered =>
        /\ \A i, j \in 1 .. Len(response.data) :
              (/\ response.data[i].type = response.data[j].type
               /\ RawOf(response.data[i]) > RawOf(response.data[j])) => i < j
        /\ \A type \in {"document", "map_tile"} :
              \A i, j \in 1 .. Len(SourceList(type)) :
                  (/\ RawOf(SourceList(type)[j]) > RawOf(SourceList(type)[i])
                   /\ AboveThreshold(SourceList(type)[i].score, Z_SCORE_THRESHOLD))
                      => AboveThreshold(SourceList(type)[j].score, Z_SCORE_THRESHOLD)

\* C28 witness: two items of one source with different raw scores were both
\* returned.
C28_Witness ==
    /\ Answered
    /\ \E i, j \in 1 .. Len(response.data) :
          /\ i < j
          /\ response.data[i].type = response.data[j].type
          /\ RawOf(response.data[i]) > RawOf(response.data[j])

\* what the search in flight returns, computed from the store's answers and
\* the limit alone
AnswerFromHits ==
    LET docs == normalize_scores(
                    AbsoluteFilter(hits_to_results(hits_doc, "document"), DocFloor))
        maps == normalize_scores(
                    AbsoluteFilter(hits_to_results(hits_map, "map_tile"), MapFloor))
    IN  FilterSortTruncate(IF op = "text" THEN docs \o maps ELSE maps \o docs, limit)

\* C29: the threshold parameter has no effect on the results of search_text and
\* search_image: the returned list is determined by the store's answers and the
\* limit, so two calls that differ only in threshold return identical lists.
C29_ThresholdIgnored ==
    Answered => response.data = AnswerFromHits

\* C29 witness: a search called with threshold 0.5 returned an item whose raw
\* score is below 0.5.
C29_Witness ==
    /\ Answered
    /\ threshold = 50
    /\ \E i \in 1 .. Len(response.data) : RawOf(response.data[i]) < threshold
====
